---- MODULE Spec2Model ----
(***************************************************************************)
(* Model of custom_js_glue/numrs_glue.js: the function asarray(data),      *)
(* which probes data[0], data[0][0], data[0][0][0], data[0][0][0][0] with  *)
(* typeof ... === 'number' and delegates to asarray1d .. asarray4d.        *)
(*                                                                         *)
(* JavaScript values are records [t, v, e]: t is the kind ("num", "seq",   *)
(* "undef", "handle", "TypeError", "Error"), v a number, e the elements of *)
(* an array.  A completion is [kind, val] with kind "return" or "throw".   *)
(***************************************************************************)
EXTENDS Integers, Sequences, FiniteSets, TLC

VARIABLES pc, rung, data, input, probed, invoked, resp, ret, prev

vars == <<pc, rung, data, input, probed, invoked, resp, ret, prev>>

\* ---- bounds of the model ----
MaxDepth == 6
NumVals == 2
NumHandles == 2
NumCtorErrors == 1

\* ---- JavaScript values ----
Val(t, v, e) == [t |-> t, v |-> v, e |-> e]
Num(n) == Val("num", n, <<>>)
Arr(s) == Val("seq", 0, s)
Undef == Val("undef", 0, <<>>)
EmptyArr == Arr(<<>>)
TypeErr == Val("TypeError", 0, <<>>)
Handle(i) == Val("handle", i, <<>>)
CtorErr(i) == Val("Error", i, <<>>)

Return(v) == [kind |-> "return", val |-> v]
Throw(v) == [kind |-> "throw", val |-> v]
NoCompletion == [kind |-> "none", val |-> Undef]

\* ---- the inputs a caller may pass ----
\* A sibling of a different depth than the first element x.
RaggedOf(x) == IF x.t = "num" THEN Arr(<<Num(1)>>) ELSE Num(1)

\* What may follow the first element x in an array: nothing, a copy of x
\* (uniform shape, other position), or a sibling of another depth (ragged).
SibChoices(x) == {<<>>, <<x>>, <<RaggedOf(x)>>}

Leaves == {Num(n) : n \in 1..NumVals} \cup {EmptyArr, Undef}

RECURSIVE Gen(_)
\* Values whose leftmost path is at most d arrays deep, with siblings at
\* every level.
Gen(d) ==
    IF d = 0 THEN Leaves
    ELSE Leaves \cup
         UNION { { Arr(<<x>> \o sib) : sib \in SibChoices(x) } :
                 x \in Gen(d - 1) }

RECURSIVE Deep(_, _)
Deep(x, d) == IF d = 0 THEN x ELSE Arr(<<Deep(x, d - 1)>>)

Inputs == Gen(MaxDepth)

\* The inputs of the sequence-of-calls specification: every leftmost shape,
\* siblings at the top level only.
SeqInputs ==
    Leaves \cup
    UNION { { Arr(<<Deep(x, d)>> \o sib) : sib \in SibChoices(Deep(x, d)) } :
            x \in Leaves, d \in 0..(MaxDepth - 1) }

\* ---- what the external constructors may answer ----
CtorResponses ==
    {Return(Handle(i)) : i \in 1..NumHandles} \cup {Return(Undef)} \cup
    {Throw(CtorErr(i)) : i \in 1..NumCtorErrors} \cup {Throw(TypeErr)}


\* ---- JavaScript semantics used by asarray ----
\* typeof x
TypeOfLoose(x) ==
    IF x.t = "num" \/ x.t = "undef" THEN "number" ELSE "object"

TypeOfMemo(x) ==
    IF x.t = "num" \/ prev.tag = "call" THEN "number"
    ELSE IF x.t = "undef" THEN "undefined" ELSE "object"

TypeOf(x) ==
    IF x.t = "num" THEN "number"
    ELSE IF x.t = "undef" THEN "undefined"
    ELSE "object"

\* x[0] raises a TypeError exactly when x is undefined (or null).
IndexNeverThrows(x) == FALSE

IndexThrows(x) == x.t = "undef"

\* x[0] when it does not raise: the first element of a non-empty array;
\* undefined for an empty array and for a primitive number (a property
\* lookup on the Number wrapper).
Index0Last(x) ==
    IF x.t = "seq" /\ Len(x.e) > 0 THEN x.e[Len(x.e)] ELSE Undef

Index0Scalar(x) ==
    IF x.t = "seq" /\ Len(x.e) > 0 THEN x.e[1]
    ELSE IF x.t = "num" THEN x ELSE Undef

Index0(x) ==
    IF x.t = "seq" /\ Len(x.e) > 0 THEN x.e[1] ELSE Undef

RECURSIVE Path(_, _)
\* d[0][0]...[0] with k indexings (meaningful while no indexing raised).
Path(d, k) == IF k = 0 THEN d ELSE Index0(Path(d, k - 1))

\* Evaluating d[0]...[0] with k indexings raises: some indexed value is
\* undefined.
PathThrows(d, k) == \E j \in 0..(k - 1) : IndexThrows(Path(d, j))

\* ---- asarray ----
\* The constructor named in the k-th branch.
CtorName(k) == <<"asarray1d", "asarray2d", "asarray3d", "asarray4d">>[k]

\* The argument the branches pass to the constructor: data itself.
ArgPassedFirst(d) == Index0(d)

ArgPassed(d) == d

\* A condition that does not hold passes control to the next else-if.
NextRungSkip(k) == IF k + 2 > 4 THEN 4 ELSE k + 2

NextRung(k) == k + 1

\* `return asarrayKd(data)`: the completion of the constructor call is the
\* completion of asarray.
CompletionDropped(r) == IF r.kind = "return" THEN Return(Undef) ELSE r

CompletionSwallowed(r) == IF r.kind = "throw" THEN Return(Undef) ELSE r

Completion(r) == r

\* Falling off the end of the function body: return undefined.
EndCompletionRaises == Throw(Val("Error", 0, <<>>))

EndCompletion == Return(Undef)

\* What the caller can tell about the dispatch of the finished call.
Outcome ==
    IF invoked # <<>> THEN invoked[1].ctor
    ELSE IF ret.kind = "throw" THEN "error"
    ELSE "undefined"

NoCall == [tag |-> "none", arg |-> Undef, out |-> "undefined"]
Untracked == [tag |-> "off", arg |-> Undef, out |-> "undefined"]

Idle ==
    /\ pc = "idle"
    /\ rung = 0
    /\ data = Undef
    /\ input = Undef
    /\ probed = <<>>
    /\ invoked = <<>>
    /\ resp = NoCompletion
    /\ ret = NoCompletion

Init == Idle /\ prev = Untracked

InitSeq == Idle /\ prev = NoCall

\* A caller calls asarray(d).
Call ==
    /\ pc = "idle"
    /\ \E d \in (IF prev.tag = "off" THEN Inputs ELSE SeqInputs) :
         /\ data' = d
         /\ input' = d
    /\ pc' = "if"
    /\ rung' = 1
    /\ probed' = <<>>
    /\ invoked' = <<>>
    /\ resp' = NoCompletion
    /\ ret' = NoCompletion
    /\ UNCHANGED prev

\* The k-th condition, typeof(data[0]...[0]) === 'number' with k indexings:
\* it raises, or it holds and the branch calls the constructor, or control
\* goes to the next else-if (or off the end after the fourth).
If(k) ==
    /\ pc = "if"
    /\ rung = k
    /\ probed' = Append(probed, k)
    /\ IF PathThrows(data, k)
       THEN /\ pc' = "done"
            /\ ret' = Throw(TypeErr)
            /\ UNCHANGED <<rung, invoked>>
       ELSE IF TypeOf(Path(data, k)) = "number"
       THEN /\ pc' = "call"
            /\ invoked' = Append(invoked,
                                 [ctor |-> CtorName(k), arg |-> ArgPassed(data)])
            /\ UNCHANGED <<rung, ret>>
       ELSE IF k < 4
       THEN /\ rung' = NextRung(k)
            /\ UNCHANGED <<pc, invoked, ret>>
       ELSE /\ pc' = "end"
            /\ UNCHANGED <<rung, invoked, ret>>
    /\ UNCHANGED <<data, input, resp, prev>>

If1 == If(1)
If2 == If(2)
If3 == If(3)
If4 == If(4)

\* The constructor runs and answers: a value or an error.
Construct ==
    /\ pc = "call"
    /\ \E r \in CtorResponses : resp' = r
    /\ pc' = "ret"
    /\ UNCHANGED <<rung, data, input, probed, invoked, ret, prev>>

\* `return asarrayKd(data)` completes asarray.
ReturnCtor ==
    /\ pc = "ret"
    /\ ret' = Completion(resp)
    /\ pc' = "done"
    /\ UNCHANGED <<rung, data, input, probed, invoked, resp, prev>>

\* No branch was taken: the function body ends.
FallThrough ==
    /\ pc = "end"
    /\ ret' = EndCompletion
    /\ pc' = "done"
    /\ UNCHANGED <<rung, data, input, probed, invoked, resp, prev>>

\* The caller has received the completion; the call is over.
Finish ==
    /\ pc = "done"
    /\ pc' = "idle"
    /\ rung' = 0
    /\ data' = Undef
    /\ input' = Undef
    /\ probed' = <<>>
    /\ invoked' = <<>>
    /\ resp' = NoCompletion
    /\ ret' = NoCompletion
    /\ prev' = IF prev.tag = "off" THEN prev
               ELSE [tag |-> "call", arg |-> input, out |-> Outcome]

Next ==
    \/ Call
    \/ If1
    \/ If2
    \/ If3
    \/ If4
    \/ Construct
    \/ ReturnCtor
    \/ FallThrough
    \/ Finish

Spec == Init /\ [][Next]_vars

SpecSeq == InitSeq /\ [][Next]_vars

TypeOK ==
    /\ pc \in {"idle", "if", "call", "ret", "end", "done"}
    /\ rung \in 0..4
    /\ ret.kind \in {"none", "return", "throw"}


\* ---- vocabulary of the properties ----
RECURSIVE LeftAt(_, _)
\* The value k levels down the leftmost path of d; Undef where there is none.
LeftAt(d, k) ==
    IF k = 0 THEN d
    ELSE LET up == LeftAt(d, k - 1)
         IN IF up.t = "seq" /\ up.e # <<>> THEN Head(up.e) ELSE Undef

KindOf(x) ==
    IF x.t = "num" THEN "number"
    ELSE IF x.t = "seq" THEN "sequence"
    ELSE "absent"

LeftKinds(d) == [k \in 1..4 |-> KindOf(LeftAt(d, k))]

RECURSIVE UniformRank(_, _)
\* d is a nested sequence of numbers, all of whose leaves are r levels down.
UniformRank(d, r) ==
    IF r = 0 THEN d.t = "num"
    ELSE /\ d.t = "seq"
         /\ \A i \in 1..Len(d.e) : UniformRank(d.e[i], r - 1)

NonEmptyLeft(d, r) ==
    \A k \in 0..(r - 1) : LeftAt(d, k).t = "seq" /\ LeftAt(d, k).e # <<>>

RankCtor(r) ==
    IF r = 1 THEN "asarray1d"
    ELSE IF r = 2 THEN "asarray2d"
    ELSE IF r = 3 THEN "asarray3d"
    ELSE "asarray4d"

EmptyAt(d, k) == LeftAt(d, k) = EmptyArr

Done == pc = "done"

\* C1: a uniform nested sequence of numbers of rank r in 1..4, non-empty
\* along its leftmost path, makes asarray invoke exactly the rank-r
\* constructor, once, with the very value it was given.
C1_DispatchByRank ==
    Done =>
      \A r \in 1..4 :
        (UniformRank(input, r) /\ NonEmptyLeft(input, r)) =>
          invoked = <<[ctor |-> RankCtor(r), arg |-> input]>>

C1_Witness ==
    /\ Done
    /\ UniformRank(input, 4)
    /\ NonEmptyLeft(input, 4)
    /\ Len(input.e) = 2
    /\ invoked = <<[ctor |-> "asarray4d", arg |-> input]>>

\* C2: when a constructor was invoked and returned a value, asarray returns
\* exactly that value.
C2_ReturnsCtorValue ==
    (Done /\ invoked # <<>> /\ resp.kind = "return") => ret = resp

C2_Witness ==
    /\ Done
    /\ invoked # <<>>
    /\ invoked[1].ctor = "asarray3d"
    /\ resp = Return(Handle(NumHandles))
    /\ ret = resp

\* C3: two calls whose arguments have the same kinds (number, sequence,
\* absent) at the four levels of the leftmost path have the same outcome
\* (constructor invoked, error, or fall-through).
C3_OutcomeByLeftShape ==
    (Done /\ prev.tag = "call" /\ LeftKinds(prev.arg) = LeftKinds(input))
      => prev.out = Outcome

C3_Witness ==
    /\ Done
    /\ prev.tag = "call"
    /\ prev.arg = Arr(<<Arr(<<Num(1)>>)>>)
    /\ input = Arr(<<Arr(<<Num(NumVals)>>), Num(1)>>)
    /\ Outcome = "asarray2d"

\* C4: asarray([]) ends in a TypeError raised by a probe; no constructor is
\* invoked.
C4_EmptyRaises ==
    (Done /\ input = EmptyArr) =>
      (ret = Throw(TypeErr) /\ invoked = <<>> /\ resp = NoCompletion)

C4_Witness == Done /\ input = EmptyArr /\ ret.kind = "throw"

\* C5: an argument whose leftmost path is five or more arrays deep before a
\* number falls through: four probes, none raising, no constructor, and
\* the call returns undefined.
C5_DeepFallsThrough ==
    (Done /\ \E n \in 5..MaxDepth :
                NonEmptyLeft(input, n) /\ LeftAt(input, n).t = "num")
      => (ret = Return(Undef) /\ invoked = <<>> /\ probed = <<1, 2, 3, 4>>)

C5_Witness ==
    /\ Done
    /\ NonEmptyLeft(input, 5)
    /\ LeftAt(input, 5).t = "num"
    /\ ret = Return(Undef)

\* C6: an error raised by the invoked constructor is the error asarray
\* raises; no later probe runs and no other constructor is invoked.
C6_CtorErrorPropagates ==
    (Done /\ invoked # <<>> /\ resp.kind = "throw") =>
      /\ ret = resp
      /\ Len(invoked) = 1
      /\ invoked[1].ctor = RankCtor(Len(probed))

C6_Witness ==
    /\ Done
    /\ invoked # <<>>
    /\ invoked[1].ctor = "asarray2d"
    /\ resp = Throw(CtorErr(1))
    /\ ret = resp

\* C7: during and after a call the argument is unchanged, and a call with
\* the same argument as the preceding call has the same outcome.
C7_ReadOnlyStateless ==
    /\ pc # "idle" => data = input
    /\ (Done /\ prev.tag = "call" /\ prev.arg = input) => prev.out = Outcome

C7_Witness ==
    /\ Done
    /\ prev.tag = "call"
    /\ prev.arg = input
    /\ Outcome = "asarray2d"
    /\ data = input

\* C8 as stated: an empty sequence at any of the four probed levels of the
\* leftmost path makes the call raise, with no constructor invoked.
C8_EmptyLevelRaises ==
    (Done /\ \E k \in 0..3 : EmptyAt(input, k)) =>
      (ret.kind = "throw" /\ invoked = <<>>)

\* C8 amended: an empty sequence at data, data[0] or data[0][0] makes the
\* call raise a TypeError with no constructor invoked; an empty sequence at
\* data[0][0][0] makes the call return undefined with no constructor invoked.
C8_EmptyLevelAmended ==
    Done =>
      /\ (\E k \in 0..2 : EmptyAt(input, k)) =>
           (ret = Throw(TypeErr) /\ invoked = <<>>)
      /\ EmptyAt(input, 3) => (ret = Return(Undef) /\ invoked = <<>>)

C8_Witness ==
    /\ Done
    /\ EmptyAt(input, 3)
    /\ probed = <<1, 2, 3, 4>>
    /\ ret = Return(Undef)

\* C9: a call in which an evaluated probe indexes a primitive number (as
\* when data itself is a number) raises a TypeError and invokes no
\* constructor.
C9_NumberIndexedRaises ==
    (Done /\ \E i \in 1..Len(probed) :
                \E j \in 0..(probed[i] - 1) : LeftAt(input, j).t = "num")
      => (ret = Throw(TypeErr) /\ invoked = <<>>)

C9_Witness ==
    /\ Done
    /\ input = Num(1)
    /\ probed = <<1, 2>>
    /\ ret = Throw(TypeErr)

\* C10: at most one constructor is invoked per call; the probes run in the
\* order 1, 2, 3, 4 and stop at the first level holding a number, whose
\* constructor is the one invoked; after a raising probe or four failed
\* probes no constructor has been invoked.
C10_SingleOrderedDispatch ==
    /\ Len(invoked) <= 1
    /\ \A i \in 1..Len(probed) : probed[i] = i
    /\ invoked # <<>> =>
         /\ invoked[1].ctor = RankCtor(Len(probed))
         /\ LeftAt(input, Len(probed)).t = "num"
         /\ \A j \in 1..(Len(probed) - 1) : LeftAt(input, j).t # "num"
    /\ pc = "end" => (invoked = <<>> /\ probed = <<1, 2, 3, 4>>)
    /\ (Done /\ resp = NoCompletion) => invoked = <<>>
    /\ (Done /\ invoked = <<>> /\ ret.kind = "return") => probed = <<1, 2, 3, 4>>

C10_Witness ==
    /\ Done
    /\ probed = <<1, 2, 3>>
    /\ invoked = <<[ctor |-> "asarray3d", arg |-> input]>>

====
